---- MODULE Spec2Model ----
(***************************************************************************)
(* Model of src/src/bot.py (class ArbitrageBot): the price cache of        *)
(* _get_prices, the analysis of _analyze_opportunity with the bisection of *)
(* _find_optimal_amount, the guard of _validate_opportunity, the           *)
(* submission of _execute_arbitrage and the loop of monitor_prices.        *)
(*                                                                         *)
(* Units.  Token amounts are counted in units of 10^14 wei, so that the    *)
(* search range of _find_optimal_amount, 0.1 .. 100 ether, is              *)
(* 1000 .. 1000000 and twenty halvings do not exhaust it.  Gas prices are  *)
(* counted in gwei.  Python's Decimal values are kept exactly, as a whole  *)
(* part and a number of ten-thousandths.  Time is counted in seconds.      *)
(*                                                                         *)
(* _validate_opportunity is declared with def and contains an await; it is *)
(* modelled as its body reads: the aggregation it awaits runs to its end   *)
(* and the caller tests the returned truth value.                          *)
(***************************************************************************)
EXTENDS Integers, Sequences, FiniteSets, TLC

VARIABLES
    token_pairs,        \* self.token_pairs, fixed at construction
    now,                \* time.time(), in seconds
    price_cache,        \* self.price_cache: cache_key -> snapshot (dex -> price)
    last_cache_update,  \* self.last_cache_update
    stats,              \* self.stats
    pc,                 \* position of monitor_prices
    tasks,              \* the per-pair tasks gathered by _check_all_opportunities
    opportunities,      \* the list monitor_prices iterates over
    idx,                \* position of the for loop over opportunities
    verdict,            \* value returned by _validate_opportunity for opportunities[idx]
    captured_at,        \* history: cache_key -> current_time of the call that wrote the entry
    discovery,          \* history: the snapshot each listed opportunity was analysed with
    lastGet,            \* history: the most recent _get_prices call
    lastVal,            \* history: the most recent _validate_opportunity call
    lastAgg,            \* history: the most recent aggregation committed by _get_prices
    lastAnalysis,       \* history: the most recent run of _check_pair_opportunities
    passlog,            \* history: what the current loop iteration has done
    execlog,            \* history: the most recent _execute_arbitrage call, and how many there were
    search              \* the loop of _find_optimal_amount, run on its own

vars == <<token_pairs, now, price_cache, last_cache_update, stats, pc, tasks, opportunities,
          idx, verdict, captured_at, discovery, lastGet, lastVal, lastAgg,
          lastAnalysis, passlog, execlog, search>>

-----------------------------------------------------------------------------
(* Bounds of the model *)

MaxTime == 12
MaxTimeTwoPairs == 6
MaxTrades == 2
\* the chain heights self.w3.eth.block_number answers are 0..MaxBlock
MaxBlock == 1

-----------------------------------------------------------------------------
(* Program constants *)

CACHE_DURATION == 5
MAX_GAS_PRICE == 100
GATED_SLEEP == 10
RATE_LIMIT_SLEEP == 1
BACKOFF_SLEEP == 5
BASE_ESTIMATE == 300000
MIN_AMOUNT == 1000
MAX_AMOUNT == 1000000
PROBE_DECREMENT == 1000
ITERATIONS == 20
PROBE_AMOUNT_IN == 10000

None == -1

Truthy(x) == x # None /\ x # 0

-----------------------------------------------------------------------------
(* decimal.Decimal: the value w + f/10000 with 0 <= f < 10000 *)

DecScale == 10000

DecOfInt(i) == [w |-> i, f |-> 0]

DecNorm(w, f) == [w |-> w + (f \div DecScale), f |-> f % DecScale]

DecAdd(a, b) == DecNorm(a.w + b.w, a.f + b.f)

DecSub(a, b) == DecNorm(a.w - b.w, a.f - b.f)

DecMulInt(d, n) == DecNorm(d.w * n, d.f * n)

DecLT(a, b) == a.w < b.w \/ (a.w = b.w /\ a.f < b.f)

DecLE(a, b) == a = b \/ DecLT(a, b)

DecZero == DecOfInt(0)

MIN_PROFIT_THRESHOLD == [w |-> 0, f |-> 100]

FLASH_LOAN_FEE == [w |-> 0, f |-> 9]

-----------------------------------------------------------------------------
(* Configuration: config['dexes'] in dictionary order and config['token_pairs'] *)

Dexes == <<"uniswap", "sushiswap", "curve">>

DexSet == {Dexes[i] : i \in 1..Len(Dexes)}

\* two configurations: one monitored pair, or a pair and its reverse
OnePair == << <<"WETH", "DAI">> >>

TwoPairs == << <<"WETH", "DAI">>, <<"DAI", "WETH">> >>

PairIds == 1..Len(token_pairs)

CacheKey(token0, token1) == <<token0, token1>>

-----------------------------------------------------------------------------
(* The venues as the bot sees them.                                        *)
(* A venue answers getAmountsOut(amount_in, path) with                     *)
(*   amount_in * num / den - (amount_in / SLIP_UNIT)^2 / slip              *)
(* (slip = 0: no slippage), and raises when it is down, when the input is  *)
(* 0 or when the input exceeds its liquidity cap (cap = 0: no cap).  A     *)
(* tiered venue pays num/den up to its knee and num2/den2 on the input     *)
(* beyond it (knee = 0: one tier).                                         *)

SLIP_UNIT == 1000

Venue(up, num, den, slip, cap) ==
    [up |-> up, num |-> num, den |-> den, slip |-> slip, cap |-> cap,
     knee |-> 0, num2 |-> num, den2 |-> den]

TieredVenue(num, den, knee, num2, den2) ==
    [up |-> TRUE, num |-> num, den |-> den, slip |-> 0, cap |-> 0,
     knee |-> knee, num2 |-> num2, den2 |-> den2]

VenueDown == Venue(FALSE, 1, 1, 0, 0)

VenueRaises(venue, amount_in) ==
    ~venue.up \/ amount_in <= 0 \/ (venue.cap > 0 /\ amount_in > venue.cap)

Max(a, b) == IF a >= b THEN a ELSE b

Abs(x) == IF x >= 0 THEN x ELSE -x

GetAmountsOut(venue, amount_in) ==
    LET linear == IF venue.knee = 0 \/ amount_in <= venue.knee
                  THEN (amount_in * venue.num) \div venue.den
                  ELSE (venue.knee * venue.num) \div venue.den
                       + ((amount_in - venue.knee) * venue.num2) \div venue.den2
        k == amount_in \div SLIP_UNIT
        slippage == IF venue.slip = 0 THEN 0 ELSE (k * k) \div venue.slip
    IN  Max(0, linear - slippage)

\* _get_dex_output: the last amount of getAmountsOut, 0 on any exception
GetDexOutput(venue, amount_in) ==
    IF VenueRaises(venue, amount_in) THEN 0 ELSE GetAmountsOut(venue, amount_in)

\* _simulate_trade_profit: round trip source -> target, net of the flash-loan fee
SimulateTradeProfit(market, amount) ==
    LET source_output == GetDexOutput(market.src, amount)
        target_output == GetDexOutput(market.tgt, source_output)
        profit == DecOfInt(target_output - amount)
        flash_loan_fee == DecMulInt(FLASH_LOAN_FEE, amount)
    IN  DecSub(profit, flash_loan_fee)

\* a variant that keeps the first profitable midpoint
ImprovesOnNothing(profit, best_amount, best_profit) ==
    best_amount = None /\ DecLT(best_profit, profit)

\* "if profit > best_profit:"
Improves(profit, best_amount, best_profit) == DecLT(best_profit, profit)

\* a variant that moves the bounds the other way
AscendingReversed(lower_profit, profit) == DecLT(profit, lower_profit)

\* "if lower_profit < profit:"
Ascending(lower_profit, profit) == DecLT(lower_profit, profit)

\* one iteration of the loop of _find_optimal_amount
SearchIteration(market, min_amount, max_amount, best_amount, best_profit) ==
    LET mid_amount == (min_amount + max_amount) \div 2
        profit == SimulateTradeProfit(market, mid_amount)
        better == Improves(profit, best_amount, best_profit)
        lower_profit == SimulateTradeProfit(market, mid_amount - PROBE_DECREMENT)
        ascending == Ascending(lower_profit, profit)
    IN  [mid_amount |-> mid_amount,
         min_amount |-> IF ascending THEN mid_amount ELSE min_amount,
         max_amount |-> IF ascending THEN max_amount ELSE mid_amount,
         best_amount |-> IF better THEN mid_amount ELSE best_amount,
         best_profit |-> IF better THEN profit ELSE best_profit]

\* the loop of _find_optimal_amount, n iterations left
RECURSIVE Bisect(_, _, _, _, _, _)
Bisect(market, n, min_amount, max_amount, best_amount, best_profit) ==
    IF n = 0 THEN best_amount
    ELSE LET s == SearchIteration(market, min_amount, max_amount, best_amount, best_profit)
         IN  Bisect(market, n - 1, s.min_amount, s.max_amount, s.best_amount, s.best_profit)

Identity == Venue(TRUE, 1, 1, 0, 0)

\* round trips the venues may offer: profit rising over the whole range, a peak
\* inside the range, no profit at any amount, target venue down, target venue
\* with liquidity for 111100 units
MarketRising == [src |-> Identity, tgt |-> Venue(TRUE, 2, 1, 0, 0)]

MarketPeak == [src |-> Identity, tgt |-> Venue(TRUE, 11, 10, 5, 0)]

MarketFlat == [src |-> Identity, tgt |-> Identity]

MarketDown == [src |-> Identity, tgt |-> VenueDown]

MarketCapped == [src |-> Identity, tgt |-> Venue(TRUE, 2, 1, 0, 111100)]

\* profit rising up to the target venue's liquidity cap, nothing beyond it
CliffMarket(cap) == [src |-> Identity, tgt |-> Venue(TRUE, 2, 1, 0, cap)]

\* profit rising up to the knee of the target venue, falling beyond it at the
\* rate the second tier leaves
TentMarket(knee, num2, den2) == [src |-> Identity, tgt |-> TieredVenue(2, 1, knee, num2, den2)]

\* amounts at which the synthetic curves peak
Peaks == {MIN_AMOUNT, MIN_AMOUNT + 500, 111100, 500500, 777777, MAX_AMOUNT}

\* unimodal round trips with their peak amount
UnimodalMarkets ==
    {[market |-> CliffMarket(a), peak |-> a] : a \in Peaks}
        \cup {[market |-> TentMarket(a, 1, 2), peak |-> a] : a \in Peaks}
        \cup {[market |-> TentMarket(a, 1, 1), peak |-> a] : a \in Peaks}

\* round trips the search is run on by itself
SearchMarkets ==
    UnimodalMarkets
        \cup {[market |-> m, peak |-> None] : m \in {MarketPeak, MarketFlat, MarketDown}}

AllMarkets ==
    {MarketRising, MarketPeak, MarketFlat, MarketDown, MarketCapped}
        \cup {m.market : m \in SearchMarkets}

\* the search of _find_optimal_amount, run once for each market
SearchResult == [m \in AllMarkets |-> Bisect(m, ITERATIONS, MIN_AMOUNT, MAX_AMOUNT, None, DecZero)]

\* _find_optimal_amount
FindOptimalAmount(market) == SearchResult[market]

\* the local variables of _find_optimal_amount; probes lists the midpoints
\* simulated so far
NoSearch == [active |-> FALSE, done |-> FALSE, market |-> MarketFlat, peak |-> None,
             n |-> 0, min_amount |-> MIN_AMOUNT, max_amount |-> MAX_AMOUNT,
             best_amount |-> None, best_profit |-> DecZero, probes |-> <<>>,
             result |-> None]

\* _calculate_profit
CalculateProfit(amount, source_price, target_price) ==
    DecOfInt((target_price - source_price) * amount)

\* _estimate_gas_cost: int(base_estimate * 1.2)
EstimateGasCost == (BASE_ESTIMATE * 12) \div 10

\* a variant that emits at the threshold too
ReachesThreshold(net_profit) == DecLE(MIN_PROFIT_THRESHOLD, net_profit)

\* the comparison that lets _analyze_opportunity emit
ClearsThreshold(net_profit) == DecLT(MIN_PROFIT_THRESHOLD, net_profit)

\* net profit after gas and flash loan fees, as _analyze_opportunity computes it
NetProfit(optimal_amount, source_price, target_price, gas_estimate, gas_price) ==
    LET profit == CalculateProfit(optimal_amount, source_price, target_price)
        flash_loan_cost == DecMulInt(FLASH_LOAN_FEE, optimal_amount)
        gas_cost == DecOfInt(gas_estimate * gas_price)
    IN  DecSub(DecSub(profit, flash_loan_cost), gas_cost)

\* _analyze_opportunity: <<>> for None, <<opportunity>> otherwise.
\* market is what the venues answer during the search; gas_price is what
\* self.w3.eth.gas_price answers (None: the read raises).
AnalyzeOpportunity(token0, token1, source_dex, target_dex, prices, market, gas_price) ==
    IF source_dex \notin DOMAIN prices \/ target_dex \notin DOMAIN prices THEN <<>>
    ELSE LET source_price == prices[source_dex]
             target_price == prices[target_dex]
             optimal_amount == FindOptimalAmount(market)
             gas_estimate == EstimateGasCost
         IN  IF ~Truthy(optimal_amount) THEN <<>>
             ELSE IF gas_price = None THEN <<>>
             ELSE LET net_profit == NetProfit(optimal_amount, source_price,
                                              target_price, gas_estimate, gas_price)
                  IN  IF ClearsThreshold(net_profit)
                      THEN << [token0 |-> token0,
                               token1 |-> token1,
                               source_dex |-> source_dex,
                               target_dex |-> target_dex,
                               amount_in |-> optimal_amount,
                               expected_profit |-> net_profit,
                               execution_path |-> <<source_dex, target_dex>>,
                               gas_estimate |-> gas_estimate] >>
                      ELSE <<>>

\* a variant that takes each two venues in one direction only
DexPairsOneWay ==
    LET n == Len(Dexes)
        all == [k \in 1..(n * n) |-> <<Dexes[((k - 1) \div n) + 1], Dexes[((k - 1) % n) + 1]>>]
    IN  SelectSeq(all, LAMBDA p : \E i, j \in 1..n : i < j /\ p = <<Dexes[i], Dexes[j]>>)

\* the (source_dex, target_dex) pairs in the order of the two for loops of
\* _check_pair_opportunities
DexPairs ==
    LET n == Len(Dexes)
        all == [k \in 1..(n * n) |-> <<Dexes[((k - 1) \div n) + 1], Dexes[((k - 1) % n) + 1]>>]
    IN  SelectSeq(all, LAMBDA p : p[1] # p[2])

RECURSIVE AnalyzeFrom(_, _, _, _, _, _)
AnalyzeFrom(k, token0, token1, prices, market, gas_price) ==
    IF k > Len(DexPairs) THEN <<>>
    ELSE AnalyzeOpportunity(token0, token1, DexPairs[k][1], DexPairs[k][2],
                            prices, market, gas_price)
         \o AnalyzeFrom(k + 1, token0, token1, prices, market, gas_price)

\* the loops of _check_pair_opportunities over the prices _get_prices returned
CheckPairOpportunities(token0, token1, prices, market, gas_price) ==
    AnalyzeFrom(1, token0, token1, prices, market, gas_price)

-----------------------------------------------------------------------------
(* _get_prices and the price cache *)

EmptyMap == [k \in {} |-> 0]

\* the venues that are queried with getAmountsOut (the else branch of _get_dex_price)
StandardDexes == {d \in DexSet : d \notin {"curve", "balancer"}}

\* _get_dex_price.  answer is what getAmountsOut returns for the probe amount,
\* <<amounts[0], amounts[1]>>, or <<>> when the call raises.  'curve' reads
\* self.curve_registry, which no code sets, and 'balancer' calls a method that
\* does not exist: both raise and give None.
GetDexPrice(dex_name, answer) ==
    IF dex_name \in {"curve", "balancer"} THEN None
    ELSE IF answer = <<>> THEN None
    ELSE IF answer[1] = 0 THEN None
    ELSE answer[2] \div answer[1]

\* results of asyncio.gather over the venues, by venue
GatherResults(answers) ==
    [d \in DexSet |-> GetDexPrice(d, IF d \in DOMAIN answers THEN answers[d] ELSE <<>>)]

\* a variant that keeps every result
KeepsAnyPrice(price) == TRUE

\* the test "if price:" that decides whether a result enters the snapshot
KeepsPrice(price) == Truthy(price)

\* the dictionary prices built from the results
BuildPrices(results) ==
    [d \in {x \in DexSet : KeepsPrice(results[x])} |-> results[d]]

\* the cache test of _get_prices
CacheValid(cache, last_update, cache_key, current_time) ==
    /\ cache_key \in DOMAIN cache
    /\ current_time - last_update < CACHE_DURATION

\* self.price_cache[cache_key] = prices
StoreSnapshot(cache, cache_key, prices) ==
    [k \in (DOMAIN cache) \cup {cache_key} |-> IF k = cache_key THEN prices ELSE cache[k]]

\* what a _get_prices call found when it tested the cache
GetRecord(by, cache_key, current_time) ==
    LET had == cache_key \in DOMAIN price_cache
        hit == CacheValid(price_cache, last_cache_update, cache_key, current_time)
        reverse == CacheKey(cache_key[2], cache_key[1])
        had_reverse == reverse \in DOMAIN price_cache
    IN  [called |-> TRUE,
         by |-> by,
         key |-> cache_key,
         at |-> current_time,
         had_entry |-> had,
         entry_age |-> IF had THEN current_time - captured_at[cache_key] ELSE 0,
         had_reverse |-> had_reverse,
         reverse_age |-> IF had_reverse THEN current_time - captured_at[reverse] ELSE 0,
         hit |-> hit,
         venue_calls |-> IF hit THEN 0 ELSE Len(Dexes)]

NoGet == [called |-> FALSE, by |-> "none", key |-> <<>>, at |-> 0, had_entry |-> FALSE,
          entry_age |-> 0, had_reverse |-> FALSE, reverse_age |-> 0, hit |-> FALSE,
          venue_calls |-> 0]

\* what an aggregation committed: the venues whose call failed, the venues
\* that answered a zero quote, and the snapshot written
AggRecord(cache_key, results, answers, prices) ==
    [done |-> TRUE,
     key |-> cache_key,
     failed |-> {d \in DexSet : d \notin StandardDexes \/ answers[d] = <<>>},
     zero |-> {d \in StandardDexes : answers[d] # <<>> /\ results[d] = 0},
     snapshot |-> prices]

NoAgg == [done |-> FALSE, key |-> <<>>, failed |-> {}, zero |-> {}, snapshot |-> EmptyMap]

-----------------------------------------------------------------------------
(* _validate_opportunity and _verify_prices *)

\* abs(price - cached) / price <= MAX_PRICE_DEVIATION, with MAX_PRICE_DEVIATION = 0.01
WithinDeviation(price, cached) == Abs(price - cached) * 100 <= price

\* _verify_prices: a missing venue raises KeyError, a zero price raises on the
\* division; both are caught and give False
VerifyPrices(current_prices, opportunity, cache) ==
    LET key == CacheKey(opportunity.token0, opportunity.token1)
        s == opportunity.source_dex
        t == opportunity.target_dex
    IN  IF s \notin DOMAIN current_prices \/ t \notin DOMAIN current_prices THEN FALSE
        ELSE IF key \notin DOMAIN cache THEN FALSE
        ELSE IF s \notin DOMAIN cache[key] \/ t \notin DOMAIN cache[key] THEN FALSE
        ELSE IF current_prices[s] = 0 \/ current_prices[t] = 0 THEN FALSE
        ELSE /\ WithinDeviation(current_prices[s], cache[key][s])
             /\ WithinDeviation(current_prices[t], cache[key][t])

\* a variant that lets through an opportunity whose gas cost equals its
\* expected profit
ReachesPriceCheckStrictGas(opportunity, gas_price) ==
    IF DecLE(opportunity.expected_profit, MIN_PROFIT_THRESHOLD) THEN FALSE
    ELSE IF gas_price = None THEN FALSE
    ELSE ~DecLT(opportunity.expected_profit,
                DecOfInt(opportunity.gas_estimate * gas_price))

\* a variant that goes on when the gas price cannot be read
ReachesPriceCheckLenient(opportunity, gas_price) ==
    IF DecLE(opportunity.expected_profit, MIN_PROFIT_THRESHOLD) THEN FALSE
    ELSE IF gas_price = None THEN TRUE
    ELSE ~DecLE(opportunity.expected_profit,
                DecOfInt(opportunity.gas_estimate * gas_price))

\* the two checks _validate_opportunity makes before it fetches prices.
\* gas_price is what self.w3.eth.gas_price answers (None: the read raises, and
\* the except clause returns False)
ReachesPriceCheck(opportunity, gas_price) ==
    IF DecLE(opportunity.expected_profit, MIN_PROFIT_THRESHOLD) THEN FALSE
    ELSE IF gas_price = None THEN FALSE
    ELSE ~DecLE(opportunity.expected_profit,
                DecOfInt(opportunity.gas_estimate * gas_price))

\* _validate_opportunity.  current_prices is what _get_prices returned and
\* cache the cache after it.
ValidateOpportunity(opportunity, gas_price, current_prices, cache) ==
    /\ ReachesPriceCheck(opportunity, gas_price)
    /\ VerifyPrices(current_prices, opportunity, cache)

NoVal == [called |-> FALSE, index |-> 0, gas_price |-> 0, reached |-> FALSE,
          fresh |-> FALSE, current_prices |-> EmptyMap, discovery |-> EmptyMap,
          source_dex |-> "", target_dex |-> "", expected_profit |-> DecZero,
          gas_estimate |-> 0, error |-> FALSE, result |-> FALSE]

-----------------------------------------------------------------------------
(* _execute_arbitrage *)

\* outcome: "accepted" (the relay's response has a non-null result),
\* "refused" (any other response, or _submit_to_flashbots caught an error),
\* "raised" (preparing or signing the bundle raised)
Outcomes == {"accepted", "refused", "raised"}

\* a variant that counts only the relay's refusals as failures
ExecuteArbitrageForgetsRaise(st, opportunity, outcome) ==
    IF outcome = "accepted"
    THEN [st EXCEPT !.trades_executed = @ + 1,
                    !.total_profit = DecAdd(@, opportunity.expected_profit)]
    ELSE IF outcome = "refused"
    THEN [st EXCEPT !.failed_trades = @ + 1]
    ELSE st

ExecuteArbitrage(st, opportunity, outcome) ==
    IF outcome = "accepted"
    THEN [st EXCEPT !.trades_executed = @ + 1,
                    !.total_profit = DecAdd(@, opportunity.expected_profit)]
    ELSE [st EXCEPT !.failed_trades = @ + 1]

InitialStats == [opportunities_found |-> 0, trades_executed |-> 0,
                 total_profit |-> DecZero, failed_trades |-> 0]

\* _prepare_flashbots_bundle: the parameters of the one transaction
PrepareFlashbotsBundle(opportunity) ==
    [to |-> "arbitrage_contract",
     gas |-> opportunity.gas_estimate,
     fn_name |-> "executeArbitrage",
     args |-> <<opportunity.token0, opportunity.token1, opportunity.amount_in,
                opportunity.source_dex, opportunity.target_dex,
                opportunity.expected_profit.w>>]

\* self.w3.eth.account.sign_transaction
SignTransaction(tx_params) == [rawTransaction |-> tx_params]

\* seconds a bundle stays valid after it is submitted
BUNDLE_WINDOW == 120

\* a variant whose bundle expires the second it is submitted
BundleParamsExpired(signed_tx, block_number, current_time) ==
    [txs |-> <<signed_tx.rawTransaction>>,
     blockNumber |-> block_number + 1,
     minTimestamp |-> 0,
     maxTimestamp |-> current_time]

\* _submit_to_flashbots: the params of the eth_sendBundle request.
\* block_number is self.w3.eth.block_number, current_time is int(time.time()).
BundleParams(signed_tx, block_number, current_time) ==
    [txs |-> <<signed_tx.rawTransaction>>,
     blockNumber |-> block_number + 1,
     minTimestamp |-> 0,
     maxTimestamp |-> current_time + BUNDLE_WINDOW]

\* what _execute_arbitrage posts to the relay: nothing when preparing or
\* signing raised, one bundle otherwise
PostedBundles(opportunity, outcome, block_number, current_time) ==
    IF outcome = "raised" THEN <<>>
    ELSE << BundleParams(SignTransaction(PrepareFlashbotsBundle(opportunity)),
                         block_number, current_time) >>

NoExec == [attempts |-> 0, called |-> FALSE, outcome |-> "none", before |-> InitialStats,
           expected_profit |-> DecZero, posted |-> <<>>, block_number |-> None,
           at |-> None]

-----------------------------------------------------------------------------
(* monitor_prices *)

\* a variant that gates at the ceiling too
GatesOnAtCeiling(current_gas_price) == current_gas_price >= MAX_GAS_PRICE

\* the test that sends an iteration to its cooldown
GatesOn(current_gas_price) == current_gas_price > MAX_GAS_PRICE

\* a variant in which the error leaves the loop
OnLoopErrorRaised == "Raised"

\* where the except clause of the loop sends an iteration
OnLoopError == "Backoff"

\* a variant that counts a rejected opportunity as a failed trade
StatsAfterRejectionCounted(st, result) ==
    IF result THEN st ELSE [st EXCEPT !.failed_trades = @ + 1]

\* _validate_opportunity returns its verdict and leaves self.stats alone
StatsAfterValidation(st, result) == st

\* a variant that tries a failed opportunity again
AfterExecuteRetry(i, outcome) == IF outcome = "accepted" THEN i + 1 ELSE i

\* "for opp in opportunities:" goes on to the next opportunity whatever
\* _execute_arbitrage did
AfterExecute(i, outcome) == i + 1

\* a variant that executes whatever the guard returned
ShouldExecuteAny(v) == TRUE

\* a variant in which an exception of preparing or signing leaves _execute_arbitrage
ResumeAfterExecuteUncaught(outcome) == IF outcome = "raised" THEN OnLoopError ELSE "ForLoop"

\* where monitor_prices goes on after _execute_arbitrage: its own try/except
\* has absorbed every failure, so the for loop goes on
ResumeAfterExecute(outcome) == "ForLoop"

\* the test "if self._validate_opportunity(opp):"
ShouldExecute(v) == v = "pass"

NoPass == [gas |-> 0, error |-> FALSE, quote_calls |-> 0, analyses |-> 0,
           verdicts |-> <<>>, executed |-> {}, slept |-> 0, writes |-> <<>>,
           listed |-> 0, validated |-> <<>>, submitted |-> <<>>, failed |-> 0]

\* results: what the venues have answered so far to a task in flight
IdleTask == [st |-> "idle", current_time |-> 0, opps |-> <<>>, disc |-> EmptyMap,
             results |-> EmptyMap]

NewTask == [IdleTask EXCEPT !.st = "new"]

-----------------------------------------------------------------------------
(* What the environment answers *)

Quote(price) == <<PROBE_AMOUNT_IN, price * PROBE_AMOUNT_IN>>

\* getAmountsOut for the probe amount, by venue: the call raises (<<>>) or quotes
AnswerSets ==
    [d \in StandardDexes |->
        IF d = "uniswap" THEN {<<>>, Quote(0), Quote(100), Quote(200)}
        ELSE {<<>>, Quote(200)}]

AnswersIn(answerSets) ==
    {a \in [StandardDexes -> UNION {answerSets[d] : d \in StandardDexes}] :
        \A d \in StandardDexes : a[d] \in answerSets[d]}

\* self.w3.eth.gas_price: the ceiling, above it, or the read raises
BlockNumbers == 0..MaxBlock
GasReadings == {MAX_GAS_PRICE, MAX_GAS_PRICE + 1, None}

Markets == {MarketRising, MarketDown}

-----------------------------------------------------------------------------
(* The state machine *)

NoAnalysis == [done |-> FALSE]

InitWith(pairs) ==
    /\ token_pairs = pairs
    /\ now = 0
    /\ price_cache = EmptyMap
    /\ last_cache_update = 0
    /\ stats = [opportunities_found |-> 0, trades_executed |-> 0,
                total_profit |-> DecZero, failed_trades |-> 0]
    /\ pc = "Scanning"
    /\ tasks = [i \in PairIds |-> IdleTask]
    /\ opportunities = <<>>
    /\ idx = 1
    /\ verdict = "pending"
    /\ captured_at = EmptyMap
    /\ discovery = <<>>
    /\ lastGet = NoGet
    /\ lastVal = NoVal
    /\ lastAgg = NoAgg
    /\ lastAnalysis = NoAnalysis
    /\ passlog = NoPass
    /\ execlog = NoExec
    /\ search = NoSearch

Init == InitWith(OnePair)

cacheVars == <<price_cache, last_cache_update, captured_at>>

\* the history records describe the step just taken
NoCalls ==
    /\ lastGet' = NoGet
    /\ lastVal' = NoVal
    /\ lastAgg' = NoAgg
    /\ lastAnalysis' = NoAnalysis

\* the step is no call of _execute_arbitrage
NoExecution == execlog' = [NoExec EXCEPT !.attempts = execlog.attempts]

NoEvents ==
    /\ NoCalls
    /\ NoExecution

\* the tasks of one gather start one right after the other: between two starts
\* the clock moves on by one unit at most
StartsPace ==
    (pc = "Gather" /\ \E i \in PairIds : tasks[i].st = "new")
        => \A j \in PairIds : tasks[j].st # "new" => tasks[j].current_time = now

\* time passes while the loop waits for the network
Tick(horizon) ==
    /\ pc \in {"Gather", "ForLoop"}
    /\ now < horizon
    /\ StartsPace
    /\ now' = now + 1
    /\ NoEvents
    /\ UNCHANGED <<token_pairs, search, cacheVars, stats, pc, tasks, opportunities, idx, verdict,
                   discovery, passlog>>

\* monitor_prices: self.w3.eth.gas_price raises
GasReadFails ==
    /\ pc = "Scanning"
    /\ pc' = OnLoopError
    /\ passlog' = [NoPass EXCEPT !.error = TRUE]
    /\ NoEvents
    /\ UNCHANGED <<token_pairs, search, now, cacheVars, stats, tasks, opportunities, idx, verdict, discovery>>

\* monitor_prices: the gas price is above the ceiling
GasTooHigh(gasSet) ==
    /\ pc = "Scanning"
    /\ \E g \in gasSet \ {None} :
          /\ GatesOn(g)
          /\ passlog' = [NoPass EXCEPT !.gas = g]
    /\ pc' = "Gated"
    /\ NoEvents
    /\ UNCHANGED <<token_pairs, search, now, cacheVars, stats, tasks, opportunities, idx, verdict, discovery>>

\* monitor_prices: the gas price lets the iteration scan; _check_all_opportunities
\* creates one task per configured pair
StartScan(gasSet) ==
    /\ pc = "Scanning"
    /\ \E g \in gasSet \ {None} :
          /\ ~GatesOn(g)
          /\ passlog' = [NoPass EXCEPT !.gas = g]
    /\ pc' = "Gather"
    /\ tasks' = [i \in PairIds |-> NewTask]
    /\ NoEvents
    /\ UNCHANGED <<token_pairs, search, now, cacheVars, stats, opportunities, idx, verdict, discovery>>

\* the tasks start in the order they were created
MayStart(i) ==
    /\ pc = "Gather"
    /\ tasks[i].st = "new"
    /\ \A j \in PairIds : j < i => tasks[j].st # "new"

AnalysisRecord(token0, token1, prices, market, gas_price, opps) ==
    [done |-> TRUE, token0 |-> token0, token1 |-> token1, prices |-> prices,
     optimal_amount |-> FindOptimalAmount(market), gas_price |-> gas_price,
     opps |-> opps, analysed |-> DexPairs]

\* _check_pair_opportunities: _get_prices finds a valid cache entry and returns
\* it; the pair is analysed with it
TaskCacheHit(i, markets, gasSet) ==
    LET token0 == token_pairs[i][1]
        token1 == token_pairs[i][2]
        key == CacheKey(token0, token1)
    IN  /\ MayStart(i)
        /\ CacheValid(price_cache, last_cache_update, key, now)
        /\ lastGet' = GetRecord("scan", key, now)
        /\ \E market \in markets, g \in gasSet :
              LET prices == price_cache[key]
                  opps == CheckPairOpportunities(token0, token1, prices, market, g)
              IN  /\ tasks' = [tasks EXCEPT ![i] = [st |-> "done", current_time |-> now,
                                                    opps |-> opps, disc |-> prices,
                                                    results |-> EmptyMap]]
                  /\ lastAnalysis' = AnalysisRecord(token0, token1, prices, market, g, opps)
        /\ passlog' = [passlog EXCEPT !.analyses = @ + Len(DexPairs)]
        /\ lastVal' = NoVal
        /\ lastAgg' = NoAgg
        /\ NoExecution
        /\ UNCHANGED <<token_pairs, search, now, cacheVars, stats, pc, opportunities, idx, verdict, discovery>>

\* _get_prices finds no valid cache entry and sends one request per venue
TaskCacheMiss(i) ==
    LET key == CacheKey(token_pairs[i][1], token_pairs[i][2])
    IN  /\ MayStart(i)
        /\ ~CacheValid(price_cache, last_cache_update, key, now)
        /\ lastGet' = GetRecord("scan", key, now)
        /\ tasks' = [tasks EXCEPT ![i] = [@ EXCEPT !.st = "fetching", !.current_time = now]]
        /\ passlog' = [passlog EXCEPT !.quote_calls = @ + Len(Dexes)]
        /\ lastVal' = NoVal
        /\ lastAgg' = NoAgg
        /\ lastAnalysis' = NoAnalysis
        /\ NoExecution
        /\ UNCHANGED <<token_pairs, search, now, cacheVars, stats, pc, opportunities, idx, verdict, discovery>>

\* _get_prices builds prices from the gathered answers, writes the cache and
\* returns; _check_pair_opportunities analyses the pair
StoreFetched(i, answers, markets, gasSet) ==
    LET token0 == token_pairs[i][1]
        token1 == token_pairs[i][2]
        key == CacheKey(token0, token1)
    IN  /\ \E market \in markets, g \in gasSet :
              LET results == GatherResults(answers)
                  prices == BuildPrices(results)
                  opps == CheckPairOpportunities(token0, token1, prices, market, g)
              IN  /\ price_cache' = StoreSnapshot(price_cache, key, prices)
                  /\ captured_at' = StoreSnapshot(captured_at, key, tasks[i].current_time)
                  /\ lastAgg' = AggRecord(key, results, answers, prices)
                  /\ tasks' = [tasks EXCEPT ![i] = [@ EXCEPT !.st = "done", !.opps = opps,
                                                             !.disc = prices,
                                                             !.results = EmptyMap]]
                  /\ lastAnalysis' = AnalysisRecord(token0, token1, prices, market, g, opps)
        /\ last_cache_update' = tasks[i].current_time
        /\ passlog' = [passlog EXCEPT
                          !.analyses = @ + Len(DexPairs),
                          !.writes = Append(@, [task |-> i,
                                                inflight |-> {j \in PairIds \ {i} :
                                                                tasks[j].st = "fetching"}])]
        /\ lastGet' = NoGet
        /\ lastVal' = NoVal
        /\ NoExecution
        /\ UNCHANGED <<token_pairs, search, now, stats, pc, opportunities, idx, verdict, discovery>>

\* the venue requests of a pair have all returned or failed: _get_prices
\* writes the cache and returns, and the pair is analysed
TaskFetchDone(i, answerSets, markets, gasSet) ==
    /\ pc = "Gather"
    /\ tasks[i].st = "fetching"
    /\ \E answers \in AnswersIn(answerSets) : StoreFetched(i, answers, markets, gasSet)

\* a variant in which each venue's answer goes into the cache as it arrives
CacheAfterAnswerStored(cache, cache_key, answers) ==
    StoreSnapshot(cache, cache_key, BuildPrices(GatherResults(answers)))

\* _get_dex_price returns its price to the gather; the cache is not touched
CacheAfterAnswer(cache, cache_key, answers) == cache

\* the request of task i to venue d returns or fails
VenueAnswerFrom(i, d, answerSets) ==
    /\ pc = "Gather"
    /\ tasks[i].st = "fetching"
    /\ d \in DexSet \ DOMAIN tasks[i].results
    /\ \E answer \in (IF d \in StandardDexes THEN answerSets[d] ELSE {<<>>}) :
              LET answers == [x \in DOMAIN tasks[i].results \cup {d} |->
                                 IF x = d THEN answer ELSE tasks[i].results[x]]
              IN  /\ tasks' = [tasks EXCEPT ![i] = [@ EXCEPT !.results = answers]]
                  /\ price_cache' = CacheAfterAnswer(price_cache,
                                        CacheKey(token_pairs[i][1], token_pairs[i][2]),
                                        answers)
    /\ NoEvents
    /\ UNCHANGED <<token_pairs, search, now, last_cache_update, captured_at, stats, pc,
                   opportunities, idx, verdict, discovery, passlog>>

\* one venue request of a task in flight returns or fails
VenueAnswer(i, answerSets) == \E d \in DexSet : VenueAnswerFrom(i, d, answerSets)

\* every venue request of the task has returned or failed
TaskCommit(i, markets, gasSet) ==
    /\ pc = "Gather"
    /\ tasks[i].st = "fetching"
    /\ DOMAIN tasks[i].results = DexSet
    /\ StoreFetched(i, [d \in StandardDexes |-> tasks[i].results[d]], markets, gasSet)

RECURSIVE OppsFrom(_)
OppsFrom(i) ==
    IF i > Len(token_pairs) THEN <<>> ELSE tasks[i].opps \o OppsFrom(i + 1)

RECURSIVE DiscFrom(_)
DiscFrom(i) ==
    IF i > Len(token_pairs) THEN <<>>
    ELSE [k \in 1..Len(tasks[i].opps) |-> tasks[i].disc] \o DiscFrom(i + 1)

\* asyncio.gather returns: the results are joined in the order of the pairs
GatherDone ==
    /\ pc = "Gather"
    /\ \A i \in PairIds : tasks[i].st = "done"
    /\ opportunities' = OppsFrom(1)
    /\ discovery' = DiscFrom(1)
    /\ tasks' = [i \in PairIds |-> IdleTask]
    /\ idx' = 1
    /\ verdict' = "pending"
    /\ pc' = "ForLoop"
    /\ passlog' = [passlog EXCEPT !.listed = Len(OppsFrom(1))]
    /\ NoEvents
    /\ UNCHANGED <<token_pairs, search, now, cacheVars, stats>>

\* if self._validate_opportunity(opp): the guard runs on opportunities[idx]
ValidateOpp(answerSets, gasSet) ==
    /\ pc = "ForLoop"
    /\ idx <= Len(opportunities)
    /\ verdict = "pending"
    /\ LET opp == opportunities[idx]
           key == CacheKey(opp.token0, opp.token1)
           hit == CacheValid(price_cache, last_cache_update, key, now)
       IN  \E g \in gasSet, answers \in AnswersIn(answerSets) :
              LET reached == ReachesPriceCheck(opp, g)
                  results == GatherResults(answers)
                  fetched == BuildPrices(results)
                  current_prices == IF hit THEN price_cache[key] ELSE fetched
                  writes == reached /\ ~hit
                  cache == IF writes THEN StoreSnapshot(price_cache, key, fetched)
                           ELSE price_cache
                  result == ValidateOpportunity(opp, g, current_prices, cache)
              IN  /\ price_cache' = cache
                  /\ last_cache_update' = IF writes THEN now ELSE last_cache_update
                  /\ captured_at' = IF writes THEN StoreSnapshot(captured_at, key, now)
                                    ELSE captured_at
                  /\ lastGet' = IF reached THEN GetRecord("validation", key, now) ELSE NoGet
                  /\ lastAgg' = IF writes THEN AggRecord(key, results, answers, fetched)
                                ELSE NoAgg
                  /\ verdict' = IF result THEN "pass" ELSE "reject"
                  /\ stats' = StatsAfterValidation(stats, result)
                  /\ lastVal' = [called |-> TRUE,
                                 index |-> idx,
                                 gas_price |-> g,
                                 reached |-> reached,
                                 fresh |-> writes,
                                 current_prices |-> IF reached THEN current_prices ELSE EmptyMap,
                                 discovery |-> discovery[idx],
                                 source_dex |-> opp.source_dex,
                                 target_dex |-> opp.target_dex,
                                 expected_profit |-> opp.expected_profit,
                                 gas_estimate |-> opp.gas_estimate,
                                 error |-> \/ /\ ~DecLE(opp.expected_profit, MIN_PROFIT_THRESHOLD)
                                              /\ g = None
                                           \/ /\ reached
                                              /\ \/ opp.source_dex \notin DOMAIN current_prices
                                                 \/ opp.target_dex \notin DOMAIN current_prices,
                                 result |-> result]
                  /\ passlog' = [passlog EXCEPT
                                    !.verdicts = Append(@, result),
                                    !.validated = Append(@, idx),
                                    !.quote_calls = @ + (IF writes THEN Len(Dexes) ELSE 0)]
    /\ lastAnalysis' = NoAnalysis
    /\ NoExecution
    /\ UNCHANGED <<token_pairs, search, now, pc, tasks, opportunities, idx, discovery>>

\* await self._execute_arbitrage(opp)
ExecuteOpp ==
    /\ pc = "ForLoop"
    /\ idx <= Len(opportunities)
    /\ verdict # "pending"
    /\ ShouldExecute(verdict)
    /\ stats.trades_executed + stats.failed_trades < MaxTrades
    /\ \E outcome \in Outcomes, block_number \in BlockNumbers :
          /\ stats' = ExecuteArbitrage(stats, opportunities[idx], outcome)
          /\ execlog' = [attempts |-> execlog.attempts + 1,
                         called |-> TRUE,
                         outcome |-> outcome,
                         before |-> stats,
                         expected_profit |-> opportunities[idx].expected_profit,
                         posted |-> PostedBundles(opportunities[idx], outcome,
                                                  block_number, now),
                         block_number |-> block_number,
                         at |-> now]
          /\ idx' = AfterExecute(idx, outcome)
          /\ pc' = ResumeAfterExecute(outcome)
          /\ passlog' = [passlog EXCEPT
                            !.executed = @ \cup {idx},
                            !.submitted = Append(@, idx),
                            !.failed = @ + (IF outcome = "accepted" THEN 0 ELSE 1)]
    /\ verdict' = "pending"
    /\ NoCalls
    /\ UNCHANGED <<token_pairs, search, now, cacheVars, tasks, opportunities, discovery>>

\* the guard returned False: the loop goes on to the next opportunity
SkipOpp ==
    /\ pc = "ForLoop"
    /\ idx <= Len(opportunities)
    /\ verdict # "pending"
    /\ ~ShouldExecute(verdict)
    /\ idx' = idx + 1
    /\ verdict' = "pending"
    /\ NoEvents
    /\ UNCHANGED <<token_pairs, search, now, cacheVars, stats, pc, tasks, opportunities, discovery, passlog>>

\* the for loop is over; the opportunities of the pass are dropped
EndPass ==
    /\ pc = "ForLoop"
    /\ idx > Len(opportunities)
    /\ pc' = "Sleep"
    /\ opportunities' = <<>>
    /\ discovery' = <<>>
    /\ idx' = 1
    /\ passlog' = [NoPass EXCEPT !.gas = passlog.gas, !.failed = passlog.failed]
    /\ NoEvents
    /\ UNCHANGED <<token_pairs, search, now, cacheVars, stats, tasks, verdict>>

\* a variant in which the loop ends after the sleep of a gated iteration
NextIterationGatedEnds(state) == IF state = "Gated" THEN "Stopped" ELSE "Scanning"

\* while True: whichever sleep ended the iteration, the next one starts
NextIteration(state) == "Scanning"

\* await asyncio.sleep(seconds), then the next iteration of while True
Wake(seconds, horizon) ==
    /\ now + seconds <= horizon
    /\ now' = now + seconds
    /\ pc' = NextIteration(pc)
    /\ passlog' = [passlog EXCEPT !.slept = seconds]
    /\ NoEvents
    /\ UNCHANGED <<token_pairs, search, cacheVars, stats, tasks, opportunities, idx, verdict,
                   discovery>>

\* await asyncio.sleep(1)  # Rate limiting
RateLimitSleep(horizon) ==
    /\ pc = "Sleep"
    /\ Wake(RATE_LIMIT_SLEEP, horizon)

\* await asyncio.sleep(10), after "Gas price too high"
GatedSleep(horizon) ==
    /\ pc = "Gated"
    /\ Wake(GATED_SLEEP, horizon)

\* await asyncio.sleep(5)  # Wait before retrying
BackoffSleep(horizon) ==
    /\ pc = "Backoff"
    /\ Wake(BACKOFF_SLEEP, horizon)

\* The same sleeps on a clock that never stops.  Times are kept relative to
\* an origin that moves forward once the clock passes the horizon: the clock
\* and every stored timestamp are shifted back by the same amount, and a
\* timestamp that would become negative is kept at 0.  With a horizon of at
\* least CACHE_DURATION this preserves the test of _get_prices, since an entry
\* held at 0 is at least horizon seconds old.
Rebased(t, delta) == Max(t - delta, 0)

WakeOn(seconds, horizon) ==
    LET delta == Max(now + seconds - horizon, 0)
    IN  /\ now' = now + seconds - delta
        /\ last_cache_update' = Rebased(last_cache_update, delta)
        /\ captured_at' = [k \in DOMAIN captured_at |-> Rebased(captured_at[k], delta)]
        /\ pc' = NextIteration(pc)
        /\ passlog' = [passlog EXCEPT !.slept = seconds]
        /\ NoEvents
        /\ UNCHANGED <<token_pairs, search, price_cache, stats, tasks, opportunities, idx,
                       verdict, discovery>>

\* await asyncio.sleep(1)  # Rate limiting
RateLimitSleepOn(horizon) ==
    /\ pc = "Sleep"
    /\ WakeOn(RATE_LIMIT_SLEEP, horizon)

\* await asyncio.sleep(10), after "Gas price too high"
GatedSleepOn(horizon) ==
    /\ pc = "Gated"
    /\ WakeOn(GATED_SLEEP, horizon)

\* await asyncio.sleep(5)  # Wait before retrying
BackoffSleepOn(horizon) ==
    /\ pc = "Backoff"
    /\ WakeOn(BACKOFF_SLEEP, horizon)

Next ==
    \/ Tick(MaxTime)
    \/ GasReadFails
    \/ GasTooHigh(GasReadings)
    \/ StartScan(GasReadings)
    \/ \E i \in PairIds : TaskCacheHit(i, Markets, GasReadings)
    \/ \E i \in PairIds : TaskCacheMiss(i)
    \/ \E i \in PairIds : TaskFetchDone(i, AnswerSets, Markets, GasReadings)
    \/ GatherDone
    \/ ValidateOpp(AnswerSets, GasReadings)
    \/ ExecuteOpp
    \/ SkipOpp
    \/ EndPass
    \/ RateLimitSleep(MaxTime)
    \/ GatedSleep(MaxTime)
    \/ BackoffSleep(MaxTime)

Spec == Init /\ [][Next]_vars

-----------------------------------------------------------------------------
(* Two monitored pairs, steady venues, over a shorter time *)

SteadyAnswers == [d \in StandardDexes |-> IF d = "uniswap" THEN {Quote(100)} ELSE {Quote(200)}]

InitTwoPairs == InitWith(TwoPairs)

NextTwoPairs ==
    \/ Tick(MaxTimeTwoPairs)
    \/ StartScan({MAX_GAS_PRICE})
    \/ \E i \in PairIds : TaskCacheHit(i, {MarketRising}, {MAX_GAS_PRICE})
    \/ \E i \in PairIds : TaskCacheMiss(i)
    \/ \E i \in PairIds : TaskFetchDone(i, SteadyAnswers, {MarketRising}, {MAX_GAS_PRICE})
    \/ GatherDone
    \/ ValidateOpp(SteadyAnswers, {MAX_GAS_PRICE, None})
    \/ ExecuteOpp
    \/ SkipOpp
    \/ EndPass
    \/ RateLimitSleep(MaxTimeTwoPairs)

SpecTwoPairs == InitTwoPairs /\ [][NextTwoPairs]_vars

-----------------------------------------------------------------------------
(* The analysis alone: one pair is fetched and analysed, over prices, gas   *)
(* prices and markets that put the net profit below, at and above the      *)
(* threshold                                                               *)

AnalysisAnswers == [d \in StandardDexes |-> {<<>>, Quote(1000), Quote(2591)}]

AnalysisGas == {490, 491, 492, None}

AnalysisMarkets == {MarketCapped, MarketPeak, MarketRising, MarketFlat}

NextAnalyze ==
    \/ StartScan({MAX_GAS_PRICE})
    \/ \E i \in PairIds : TaskCacheMiss(i)
    \/ \E i \in PairIds : TaskFetchDone(i, AnalysisAnswers, AnalysisMarkets, AnalysisGas)
    \/ GatherDone

SpecAnalyze == Init /\ [][NextAnalyze]_vars

-----------------------------------------------------------------------------
(* The guard alone: _validate_opportunity applied to one opportunity drawn  *)
(* from expected profits at and around the threshold and the gas cost      *)

GuardProfits ==
    {DecOfInt(-1), DecZero, MIN_PROFIT_THRESHOLD, [w |-> 0, f |-> 101],
     [w |-> EstimateGasCost * MAX_GAS_PRICE - 1, f |-> 9999],
     DecOfInt(EstimateGasCost * MAX_GAS_PRICE),
     [w |-> EstimateGasCost * MAX_GAS_PRICE, f |-> 1]}

GuardOpportunity(expected_profit) ==
    [token0 |-> OnePair[1][1],
     token1 |-> OnePair[1][2],
     source_dex |-> "uniswap",
     target_dex |-> "sushiswap",
     amount_in |-> MIN_AMOUNT,
     expected_profit |-> expected_profit,
     execution_path |-> <<"uniswap", "sushiswap">>,
     gas_estimate |-> EstimateGasCost]

GuardSnapshot == [d \in StandardDexes |-> IF d = "uniswap" THEN 100 ELSE 200]

GuardGas == {0, 1, MAX_GAS_PRICE, None}

InitGuard ==
    /\ token_pairs = OnePair
    /\ now = 0
    /\ price_cache = EmptyMap
    /\ last_cache_update = 0
    /\ stats = [opportunities_found |-> 0, trades_executed |-> 0,
                total_profit |-> DecZero, failed_trades |-> 0]
    /\ pc = "ForLoop"
    /\ tasks = [i \in 1..Len(OnePair) |-> IdleTask]
    /\ \E p \in GuardProfits : opportunities = <<GuardOpportunity(p)>>
    /\ idx = 1
    /\ verdict = "pending"
    /\ captured_at = EmptyMap
    /\ discovery = <<GuardSnapshot>>
    /\ lastGet = NoGet
    /\ lastVal = NoVal
    /\ lastAgg = NoAgg
    /\ lastAnalysis = NoAnalysis
    /\ passlog = [NoPass EXCEPT !.listed = 1]
    /\ execlog = NoExec
    /\ search = NoSearch

NextGuard ==
    \/ ValidateOpp(AnswerSets, GuardGas)
    \/ ExecuteOpp
    \/ SkipOpp
    \/ EndPass

SpecGuard == InitGuard /\ [][NextGuard]_vars

-----------------------------------------------------------------------------
(* The search alone: _find_optimal_amount, one iteration of its loop at a   *)
(* time, against each of the synthetic round trips                         *)

InitSearch ==
    /\ token_pairs = OnePair
    /\ now = 0
    /\ price_cache = EmptyMap
    /\ last_cache_update = 0
    /\ stats = InitialStats
    /\ pc = "Search"
    /\ tasks = [i \in 1..Len(OnePair) |-> IdleTask]
    /\ opportunities = <<>>
    /\ idx = 1
    /\ verdict = "pending"
    /\ captured_at = EmptyMap
    /\ discovery = <<>>
    /\ lastGet = NoGet
    /\ lastVal = NoVal
    /\ lastAgg = NoAgg
    /\ lastAnalysis = NoAnalysis
    /\ passlog = NoPass
    /\ execlog = NoExec
    /\ \E m \in SearchMarkets :
          search = [NoSearch EXCEPT !.active = TRUE, !.market = m.market, !.peak = m.peak]

searchRest == <<token_pairs, now, price_cache, last_cache_update, stats, tasks, opportunities,
                idx, verdict, captured_at, discovery, lastGet, lastVal, lastAgg,
                lastAnalysis, passlog, execlog>>

\* one pass through the body of "for _ in range(20)"
SearchStep ==
    /\ pc = "Search"
    /\ search.n < ITERATIONS
    /\ LET s == SearchIteration(search.market, search.min_amount, search.max_amount,
                                search.best_amount, search.best_profit)
       IN  search' = [search EXCEPT !.n = @ + 1,
                                    !.min_amount = s.min_amount,
                                    !.max_amount = s.max_amount,
                                    !.best_amount = s.best_amount,
                                    !.best_profit = s.best_profit,
                                    !.probes = Append(@, s.mid_amount)]
    /\ UNCHANGED <<pc, searchRest>>

\* "return best_amount"
SearchReturn ==
    /\ pc = "Search"
    /\ search.n = ITERATIONS
    /\ search' = [search EXCEPT !.done = TRUE, !.result = FindOptimalAmount(search.market)]
    /\ pc' = "Searched"
    /\ UNCHANGED searchRest

NextSearch ==
    \/ SearchStep
    \/ SearchReturn

SpecSearch == InitSearch /\ [][NextSearch]_vars

-----------------------------------------------------------------------------
(* The cache alone: _get_prices called for either order of two tokens, one  *)
(* call after the other, while the clock runs                              *)

MaxTimeCache == 7
\* horizon of the clock that is kept relative: at least CACHE_DURATION
MaxTimeLive == 6

CallPairs == {<<"WETH", "DAI">>, <<"DAI", "WETH">>}

InitCache ==
    /\ token_pairs = OnePair
    /\ now = 0
    /\ price_cache = EmptyMap
    /\ last_cache_update = 0
    /\ stats = InitialStats
    /\ pc = "Calls"
    /\ tasks = [i \in 1..Len(OnePair) |-> IdleTask]
    /\ opportunities = <<>>
    /\ idx = 1
    /\ verdict = "pending"
    /\ captured_at = EmptyMap
    /\ discovery = <<>>
    /\ lastGet = NoGet
    /\ lastVal = NoVal
    /\ lastAgg = NoAgg
    /\ lastAnalysis = NoAnalysis
    /\ passlog = NoPass
    /\ execlog = NoExec
    /\ search = NoSearch

callRest == <<token_pairs, search, stats, pc, tasks, opportunities, idx, verdict, discovery,
              passlog>>

\* _get_prices(session, token0, token1) returns the cached snapshot
GetPricesHit(token0, token1) ==
    LET key == CacheKey(token0, token1)
    IN  /\ pc = "Calls"
        /\ CacheValid(price_cache, last_cache_update, key, now)
        /\ lastGet' = GetRecord("call", key, now)
        /\ lastAgg' = NoAgg
        /\ lastVal' = NoVal
        /\ lastAnalysis' = NoAnalysis
        /\ NoExecution
        /\ UNCHANGED <<now, cacheVars, callRest>>

\* _get_prices(session, token0, token1) queries the venues and stores what
\* they answer
GetPricesFetch(token0, token1, answerSets) ==
    LET key == CacheKey(token0, token1)
    IN  /\ pc = "Calls"
        /\ ~CacheValid(price_cache, last_cache_update, key, now)
        /\ \E answers \in AnswersIn(answerSets) :
              LET results == GatherResults(answers)
                  prices == BuildPrices(results)
              IN  /\ price_cache' = StoreSnapshot(price_cache, key, prices)
                  /\ lastAgg' = AggRecord(key, results, answers, prices)
        /\ captured_at' = StoreSnapshot(captured_at, key, now)
        /\ last_cache_update' = now
        /\ lastGet' = GetRecord("call", key, now)
        /\ lastVal' = NoVal
        /\ lastAnalysis' = NoAnalysis
        /\ NoExecution
        /\ UNCHANGED <<now, callRest>>

\* time passes between two calls
CallTick ==
    /\ pc = "Calls"
    /\ now < MaxTimeCache
    /\ now' = now + 1
    /\ NoEvents
    /\ UNCHANGED <<cacheVars, callRest>>

NextCache ==
    \/ \E p \in CallPairs : GetPricesHit(p[1], p[2])
    \/ \E p \in CallPairs : GetPricesFetch(p[1], p[2], AnswerSets)
    \/ CallTick

SpecCache == InitCache /\ [][NextCache]_vars

-----------------------------------------------------------------------------
(* The fan-out: two pairs whose venue requests return one at a time, in any  *)
(* order                                                                    *)

FanoutAnswers ==
    [d \in StandardDexes |-> IF d = "uniswap" THEN {<<>>, Quote(100)} ELSE {Quote(200)}]

NextFanout ==
    \/ Tick(MaxTimeTwoPairs)
    \/ StartScan({MAX_GAS_PRICE})
    \/ \E i \in PairIds : TaskCacheHit(i, {MarketRising}, {MAX_GAS_PRICE})
    \/ \E i \in PairIds : TaskCacheMiss(i)
    \/ \E i \in PairIds : VenueAnswer(i, FanoutAnswers)
    \/ \E i \in PairIds : TaskCommit(i, {MarketRising}, {MAX_GAS_PRICE})
    \/ GatherDone
    \/ ValidateOpp(FanoutAnswers, {None})
    \/ SkipOpp
    \/ EndPass
    \/ RateLimitSleep(MaxTimeTwoPairs)

SpecFanout == InitTwoPairs /\ [][NextFanout]_vars

-----------------------------------------------------------------------------
(* monitor_prices running for ever, one pair; every network call returns or
   fails.  The event loop runs the one coroutine of monitor_prices, so the
   next step of the loop, whichever it is, is eventually taken. *)

LoopStep ==
    \/ GasReadFails
    \/ GasTooHigh(GasReadings)
    \/ StartScan(GasReadings)
    \/ \E i \in PairIds : TaskCacheHit(i, {MarketRising}, {MAX_GAS_PRICE})
    \/ \E i \in PairIds : TaskCacheMiss(i)
    \/ \E i \in PairIds : TaskFetchDone(i, SteadyAnswers, {MarketRising}, {MAX_GAS_PRICE})
    \/ GatherDone
    \/ ValidateOpp(SteadyAnswers, {MAX_GAS_PRICE, None})
    \/ ExecuteOpp
    \/ SkipOpp
    \/ EndPass
    \/ RateLimitSleepOn(MaxTimeLive)
    \/ GatedSleepOn(MaxTimeLive)
    \/ BackoffSleepOn(MaxTimeLive)

NextLive ==
    \/ Tick(MaxTimeLive)
    \/ LoopStep

SpecLive == Init /\ [][NextLive]_vars /\ WF_vars(LoopStep)

-----------------------------------------------------------------------------
(* the fan-out when the request to one venue may never return: every step of
   the event loop that can be taken is taken, and every other request returns
   or fails, but nothing makes the request to HungVenue return *)

HungVenue == "sushiswap"

TwoPairIds == 1..Len(TwoPairs)

\* the steps that do not depend on HungVenue answering
HangProgress ==
    \/ StartScan({MAX_GAS_PRICE})
    \/ \E i \in TwoPairIds : TaskCacheHit(i, {MarketRising}, {MAX_GAS_PRICE})
    \/ \E i \in TwoPairIds : TaskCacheMiss(i)
    \/ \E i \in TwoPairIds, d \in DexSet \ {HungVenue} : VenueAnswerFrom(i, d, FanoutAnswers)
    \/ \E i \in TwoPairIds : TaskCommit(i, {MarketRising}, {MAX_GAS_PRICE})
    \/ GatherDone
    \/ ValidateOpp(FanoutAnswers, {None})
    \/ SkipOpp
    \/ EndPass
    \/ RateLimitSleep(MaxTimeTwoPairs)

HangFairness == WF_vars(HangProgress)

SpecHang == InitTwoPairs /\ [][NextFanout]_vars /\ HangFairness

-----------------------------------------------------------------------------
(* Claims *)

\* C1: a _get_prices call for a pair whose cached snapshot is CACHE_DURATION
\* seconds old or older never returns that snapshot: it sends one request per
\* venue.
C1_ExpiredSnapshotRefetched ==
    (lastGet.called /\ lastGet.had_entry /\ lastGet.entry_age >= CACHE_DURATION)
        => (~lastGet.hit /\ lastGet.venue_calls = Len(Dexes))

\* C2: a _get_prices call for a pair whose cached snapshot is younger than
\* CACHE_DURATION returns that snapshot and sends no venue request, whatever
\* was written for other pairs in between.
C2_YoungSnapshotReturned ==
    (lastGet.called /\ lastGet.had_entry /\ lastGet.entry_age < CACHE_DURATION)
        => (lastGet.hit /\ lastGet.venue_calls = 0)

\* the price moved by more than 1% of the reference
Drifted(price, reference) == Abs(price - reference) * 100 > reference

\* C3: when the guard fetches execution-time prices, it accepts the price
\* check exactly when neither the source nor the target venue's price differs
\* by more than 1% from the price in the snapshot the opportunity was
\* discovered with
C3_DriftRejected ==
    LET s == lastVal.source_dex
        t == lastVal.target_dex
    IN  (/\ lastVal.called
         /\ lastVal.reached
         /\ lastVal.fresh
         /\ {s, t} \subseteq DOMAIN lastVal.current_prices
         /\ {s, t} \subseteq DOMAIN lastVal.discovery)
            => (lastVal.result <=>
                   /\ ~Drifted(lastVal.current_prices[s], lastVal.discovery[s])
                   /\ ~Drifted(lastVal.current_prices[t], lastVal.discovery[t]))

ExpectedNet(source_price, target_price, amount, gas_estimate, gas_price) ==
    DecSub(DecSub(DecOfInt((target_price - source_price) * amount),
                  DecMulInt(FLASH_LOAN_FEE, amount)),
           DecOfInt(gas_estimate * gas_price))

\* C5: every opportunity _analyze_opportunity emits carries an expected_profit
\* equal to gross profit minus flash-loan cost minus gas cost, strictly above
\* min_profit_threshold; for a venue pair whose net profit is at or below the
\* threshold nothing is emitted
C5_EmittedProfitAboveThreshold ==
    lastAnalysis.done =>
        LET r == lastAnalysis
        IN  /\ \A k \in 1..Len(r.opps) :
                  LET o == r.opps[k]
                  IN  /\ {o.source_dex, o.target_dex} \subseteq DOMAIN r.prices
                      /\ o.amount_in = r.optimal_amount
                      /\ o.expected_profit =
                             ExpectedNet(r.prices[o.source_dex], r.prices[o.target_dex],
                                         o.amount_in, o.gas_estimate, r.gas_price)
                      /\ DecLT(MIN_PROFIT_THRESHOLD, o.expected_profit)
            /\ \A s \in DOMAIN r.prices, t \in DOMAIN r.prices :
                  (/\ s # t
                   /\ Truthy(r.optimal_amount)
                   /\ r.gas_price # None
                   /\ DecLE(ExpectedNet(r.prices[s], r.prices[t], r.optimal_amount,
                                        EstimateGasCost, r.gas_price),
                            MIN_PROFIT_THRESHOLD))
                      => ~\E k \in 1..Len(r.opps) :
                             r.opps[k].source_dex = s /\ r.opps[k].target_dex = t

C5_Emitted ==
    /\ lastAnalysis.done
    /\ Len(lastAnalysis.opps) > 0

\* a venue pair whose net profit is exactly the threshold has been analysed
C5_AtThreshold ==
    /\ lastAnalysis.done
    /\ Truthy(lastAnalysis.optimal_amount)
    /\ lastAnalysis.gas_price # None
    /\ \E s \in DOMAIN lastAnalysis.prices, t \in DOMAIN lastAnalysis.prices :
          ExpectedNet(lastAnalysis.prices[s], lastAnalysis.prices[t],
                      lastAnalysis.optimal_amount, EstimateGasCost,
                      lastAnalysis.gas_price) = MIN_PROFIT_THRESHOLD

\* C6 as stated: for any set F of failing venues the fetch completes and the
\* snapshot returned and cached has exactly the venues not in F, none of them
\* at a zero or null price
C6_SnapshotIsVenuesNotFailed ==
    lastAgg.done =>
        /\ DOMAIN lastAgg.snapshot = DexSet \ lastAgg.failed
        /\ \A d \in DOMAIN lastAgg.snapshot : lastAgg.snapshot[d] > 0
        /\ lastAgg.key \in DOMAIN price_cache
        /\ price_cache[lastAgg.key] = lastAgg.snapshot

\* C6 amended: the snapshot returned and cached has exactly the venues not in
\* F whose quote is not zero, none of them at a zero or null price
C6_SnapshotIsVenuesWithQuote ==
    lastAgg.done =>
        /\ DOMAIN lastAgg.snapshot = DexSet \ (lastAgg.failed \cup lastAgg.zero)
        /\ \A d \in DOMAIN lastAgg.snapshot : lastAgg.snapshot[d] > 0
        /\ lastAgg.key \in DOMAIN price_cache
        /\ price_cache[lastAgg.key] = lastAgg.snapshot

C6_OneVenueFailed ==
    /\ lastAgg.done
    /\ "uniswap" \in lastAgg.failed
    /\ "sushiswap" \in DOMAIN lastAgg.snapshot

\* C7: an iteration that reads a gas price above max_gas_price makes no price
\* query, analysis, validation or execution, sleeps 10 seconds and goes back to
\* scanning; a gas price equal to max_gas_price does not gate
C7_GasGate ==
    /\ pc = "Gated" => passlog.gas > MAX_GAS_PRICE
    /\ passlog.gas > MAX_GAS_PRICE =>
          /\ pc \in {"Gated", "Scanning"}
          /\ passlog.quote_calls = 0
          /\ passlog.analyses = 0
          /\ passlog.verdicts = <<>>
          /\ passlog.executed = {}
          /\ \A i \in PairIds : tasks[i].st = "idle"
          /\ pc = "Scanning" => passlog.slept = 10

C7_GatedThenScanning ==
    /\ pc = "Scanning"
    /\ passlog.gas > MAX_GAS_PRICE
    /\ passlog.slept = 10

\* the states of the loop of monitor_prices
LoopStates == {"Scanning", "Gather", "ForLoop", "Sleep", "Gated", "Backoff"}

C9_ErrorRejects ==
    (lastVal.called /\ lastVal.error) =>
        /\ ~lastVal.result
        /\ verdict = "reject"

C9_ErrorInValidation ==
    /\ lastVal.called
    /\ lastVal.error
    /\ lastVal.gas_price = None

\* C10: the guard rejects an opportunity whose expected_profit is at or below
\* min_profit_threshold, and one whose gas_estimate times the current gas
\* price is at or above its expected_profit
C10_GuardRejectsUnprofitable ==
    (/\ lastVal.called
     /\ \/ DecLE(lastVal.expected_profit, MIN_PROFIT_THRESHOLD)
        \/ /\ lastVal.gas_price # None
           /\ DecLE(lastVal.expected_profit,
                    DecOfInt(lastVal.gas_estimate * lastVal.gas_price)))
        => (~lastVal.result /\ verdict = "reject")

C10_GasCostEqualsProfit ==
    /\ lastVal.called
    /\ ~DecLE(lastVal.expected_profit, MIN_PROFIT_THRESHOLD)
    /\ lastVal.gas_price # None
    /\ lastVal.expected_profit = DecOfInt(lastVal.gas_estimate * lastVal.gas_price)
    /\ ~lastVal.result

\* C11: a call of _execute_arbitrage whose relay response has a non-null
\* result adds 1 to trades_executed and the opportunity's expected_profit to
\* total_profit; any other call adds 1 to failed_trades and leaves
\* trades_executed and total_profit alone; trades_executed + failed_trades is
\* the number of calls made
C11_ExecutionCounted ==
    /\ stats.trades_executed + stats.failed_trades = execlog.attempts
    /\ execlog.called =>
          IF execlog.outcome = "accepted"
          THEN /\ stats.trades_executed = execlog.before.trades_executed + 1
               /\ stats.total_profit =
                      DecAdd(execlog.before.total_profit, execlog.expected_profit)
               /\ stats.failed_trades = execlog.before.failed_trades
          ELSE /\ stats.failed_trades = execlog.before.failed_trades + 1
               /\ stats.trades_executed = execlog.before.trades_executed
               /\ stats.total_profit = execlog.before.total_profit

C11_AcceptedAndFailed ==
    /\ execlog.called
    /\ execlog.outcome = "raised"
    /\ execlog.before.trades_executed = 1
    /\ execlog.attempts = 2

\* net profit with the flash-loan fee taken on the amount valued at the
\* source price
NetWithPricedFee(source_price, target_price, amount, gas_estimate, gas_price) ==
    DecSub(DecSub(DecOfInt((target_price - source_price) * amount),
                  DecMulInt(DecMulInt(FLASH_LOAN_FEE, amount), source_price)),
           DecOfInt(gas_estimate * gas_price))

\* C12: the net profit _analyze_opportunity computes, which an emitted
\* opportunity carries as expected_profit, equals
\* (target_price - source_price) * amount - amount * fee_rate * source_price
\* - gas_estimate * gas_price, and an opportunity is emitted only if that value
\* exceeds the threshold
C12_NetProfitWithPricedFee ==
    lastAnalysis.done =>
        \A k \in 1..Len(lastAnalysis.opps) :
            LET o == lastAnalysis.opps[k]
                value == NetWithPricedFee(lastAnalysis.prices[o.source_dex],
                                          lastAnalysis.prices[o.target_dex],
                                          o.amount_in, o.gas_estimate,
                                          lastAnalysis.gas_price)
            IN  /\ o.expected_profit = value
                /\ DecLT(MIN_PROFIT_THRESHOLD, value)

\* the midpoints the search has simulated
Probed == {search.probes[k] : k \in 1..Len(search.probes)}

\* C13: _find_optimal_amount returns after exactly 20 iterations; it returns
\* none, or one of the probed midpoints that lies in [min, max], has a
\* strictly positive simulated profit and the highest simulated profit of all
\* the midpoints probed; it returns none when no probed amount is profitable
C13_BestOfProbes ==
    search.active =>
        /\ Len(search.probes) = search.n
        /\ search.done => (search.n = 20 /\ search.result = search.best_amount)
        /\ search.best_amount # None =>
              /\ search.best_amount \in Probed
              /\ MIN_AMOUNT <= search.best_amount
              /\ search.best_amount <= MAX_AMOUNT
              /\ DecLT(DecZero, SimulateTradeProfit(search.market, search.best_amount))
              /\ \A a \in Probed :
                    DecLE(SimulateTradeProfit(search.market, a),
                          SimulateTradeProfit(search.market, search.best_amount))
        /\ (\A a \in Probed : ~DecLT(DecZero, SimulateTradeProfit(search.market, a)))
              => search.best_amount = None

C13_ReturnedLaterMidpoint ==
    /\ search.done
    /\ search.result # None
    /\ search.result # search.probes[1]
    /\ DecLT(DecZero, SimulateTradeProfit(search.market, search.probes[1]))

C13_ReturnedNone ==
    /\ search.done
    /\ search.result = None

\* the simulated profit rises strictly up to the peak and falls strictly
\* beyond it, seen next to the peak and on a grid over the range
UnimodalStep == 9990

UnimodalAt(market, peak) ==
    LET P(a) == SimulateTradeProfit(market, a)
    IN  /\ DecLT(DecZero, P(peak))
        /\ peak > MIN_AMOUNT => DecLT(P(peak - 1), P(peak))
        /\ peak < MAX_AMOUNT => DecLT(P(peak + 1), P(peak))
        /\ \A i \in 0..((MAX_AMOUNT - MIN_AMOUNT) \div UnimodalStep - 1) :
              LET a == MIN_AMOUNT + i * UnimodalStep
                  b == a + UnimodalStep
              IN  /\ b <= peak => DecLT(P(a), P(b))
                  /\ a >= peak => DecLT(P(b), P(a))

\* C14: on a unimodal simulated-profit curve with a profitable peak at A*, the
\* search returns after its 20 iterations an amount no further from A* than
\* the probe decrement
C14_NearPeak ==
    (search.done /\ search.peak # None /\ UnimodalAt(search.market, search.peak))
        => /\ search.result # None
           /\ Abs(search.result - search.peak) <= PROBE_DECREMENT

C14_PeakInside ==
    /\ search.done
    /\ search.peak = 777777
    /\ UnimodalAt(search.market, search.peak)
    /\ search.market = TentMarket(777777, 1, 1)
    /\ search.result # search.peak

\* C15: an emitted opportunity has two different venues, both in the snapshot
\* it was analysed with, and execution_path = [source_dex, target_dex]; each
\* ordered pair of different venues of the snapshot is analysed exactly once
\* in a run of _check_pair_opportunities, which runs once per pair in a pass
C15_DistinctVenuesAnalysedOnce ==
    /\ lastAnalysis.done =>
          /\ \A k \in 1..Len(lastAnalysis.opps) :
                LET o == lastAnalysis.opps[k]
                IN  /\ o.source_dex # o.target_dex
                    /\ {o.source_dex, o.target_dex} \subseteq DOMAIN lastAnalysis.prices
                    /\ o.execution_path = <<o.source_dex, o.target_dex>>
          /\ \A s \in DOMAIN lastAnalysis.prices, t \in DOMAIN lastAnalysis.prices :
                s # t =>
                    Cardinality({k \in 1..Len(lastAnalysis.analysed) :
                                    lastAnalysis.analysed[k] = <<s, t>>}) = 1
    /\ pc = "Gather" =>
          passlog.analyses =
              Cardinality({i \in PairIds : tasks[i].st = "done"})
                  * Len(Dexes) * (Len(Dexes) - 1)

C15_EmittedWithVenueMissing ==
    /\ lastAnalysis.done
    /\ Len(lastAnalysis.opps) = 1
    /\ DOMAIN lastAnalysis.prices = {"uniswap", "sushiswap"}
    /\ lastAnalysis.opps[1].source_dex = "uniswap"

\* C16: once a snapshot is cached for (token0, token1), a _get_prices call
\* for (token1, token0) made before that snapshot is CACHE_DURATION old is a
\* cache hit with no venue call
C16_ReverseOrderHits ==
    (lastGet.called /\ lastGet.had_reverse /\ lastGet.reverse_age < CACHE_DURATION)
        => (lastGet.hit /\ lastGet.venue_calls = 0)

\* C18: the price cache and its timestamp are not written from within the
\* tasks fanned out concurrently: of two per-pair tasks in flight at the same
\* time, at most one writes the cache state
C18_NoTwoTasksWrite ==
    \A a \in 1..Len(passlog.writes), b \in 1..Len(passlog.writes) :
        a < b => passlog.writes[b].task \notin passlog.writes[a].inflight

\* C17: the cache entry of a pair changes only in the step in which a task
\* that has collected the answer of every venue stores the snapshot built from
\* all of them; while venue answers are still arriving the cache is not
\* touched, so no read can see part of an aggregation in flight
C17_SnapshotWrittenWhole ==
    [][price_cache' # price_cache =>
          \E i \in PairIds :
              /\ tasks[i].st = "fetching"
              /\ DOMAIN tasks[i].results = DexSet
              /\ tasks'[i].st = "done"
              /\ price_cache' =
                     StoreSnapshot(price_cache,
                                   CacheKey(token_pairs[i][1], token_pairs[i][2]),
                                   BuildPrices(GatherResults(tasks[i].results)))]_vars

C17_PartlyAnsweredRefresh ==
    \E i \in PairIds :
        /\ tasks[i].st = "fetching"
        /\ DOMAIN tasks[i].results = {"sushiswap"}
        /\ CacheKey(token_pairs[i][1], token_pairs[i][2]) \in DOMAIN price_cache
        /\ "uniswap" \in DOMAIN price_cache[CacheKey(token_pairs[i][1], token_pairs[i][2])]

\* C19: a run of _validate_opportunity that reaches the price check sends a
\* quote request to every venue; the prices it checks do not come from the
\* snapshot cached when the opportunity was discovered
C19_GuardRefetches ==
    (lastVal.called /\ lastVal.reached)
        => /\ lastVal.fresh
           /\ lastGet.called
           /\ ~lastGet.hit
           /\ lastGet.venue_calls = Len(Dexes)

\* no index occurs twice in the sequence
NoRepeat(seq) == \A a \in 1..Len(seq), b \in 1..Len(seq) : a # b => seq[a] # seq[b]

\* C20: in a pass each discovered opportunity is validated at most once and
\* submitted at most once, a failed submission included; the opportunities of
\* a pass are dropped when it ends, so a later pass validates and submits only
\* what it has discovered itself
C20_NoRetry ==
    /\ NoRepeat(passlog.validated)
    /\ NoRepeat(passlog.submitted)
    /\ \A k \in 1..Len(passlog.validated) : passlog.validated[k] \in 1..passlog.listed
    /\ \A k \in 1..Len(passlog.submitted) :
          \E j \in 1..Len(passlog.validated) : passlog.validated[j] = passlog.submitted[k]
    /\ pc = "ForLoop" => Len(opportunities) = passlog.listed
    /\ pc # "ForLoop" =>
          /\ opportunities = <<>>
          /\ passlog.validated = <<>>
          /\ passlog.submitted = <<>>

C20_FailedInSecondPass ==
    /\ execlog.called
    /\ execlog.outcome = "refused"
    /\ execlog.attempts = 2
    /\ execlog.before.failed_trades = 1
    /\ passlog.submitted = <<1>>
    /\ idx = 2

\* C21: a step of scanning, analysis or validation leaves every counter of
\* self.stats as it was; a rejection by the guard adds nothing to failed_trades
C21_StatsOnlyByExecution ==
    [][(lastGet'.called \/ lastAgg'.done \/ lastAnalysis'.done \/ lastVal'.called
            \/ ~execlog'.called)
          => stats' = stats]_vars

C21_RejectedAfterTrade ==
    /\ lastVal.called
    /\ ~lastVal.result
    /\ stats.trades_executed = 1
    /\ stats.failed_trades = 0
    /\ stats.opportunities_found = 0

\* C24 (as stated): every bundle posted to the relay carries one signed
\* transaction, targets block_number + 1, and has minTimestamp = now and
\* maxTimestamp = now + 120
C24_WindowStartsAtNow ==
    \A i \in 1..Len(execlog.posted) :
        /\ Len(execlog.posted[i].txs) = 1
        /\ execlog.posted[i].blockNumber = execlog.block_number + 1
        /\ execlog.posted[i].minTimestamp = execlog.at
        /\ execlog.posted[i].maxTimestamp = execlog.at + 120

\* C24: every bundle posted to the relay carries one signed transaction,
\* targets block_number + 1, has no lower time bound (minTimestamp = 0) and
\* expires 120 s after the submission (maxTimestamp = now + 120); at most one
\* bundle is posted per execution, none when preparing or signing raised
C24_BundleExpiresAfterWindow ==
    /\ Len(execlog.posted) <= 1
    /\ (execlog.called /\ execlog.outcome # "raised") => Len(execlog.posted) = 1
    /\ \A i \in 1..Len(execlog.posted) :
          /\ Len(execlog.posted[i].txs) = 1
          /\ execlog.posted[i].txs[1].gas = EstimateGasCost
          /\ execlog.posted[i].blockNumber = execlog.block_number + 1
          /\ execlog.posted[i].minTimestamp = 0
          /\ execlog.posted[i].maxTimestamp = execlog.at + 120

C24_PostedAfterStart ==
    /\ execlog.called
    /\ Len(execlog.posted) = 1
    /\ execlog.at > 0
    /\ execlog.block_number = 1
    /\ execlog.posted[1].maxTimestamp > 120

\* C25: a failed execution (relay refusal, or an exception of preparing,
\* signing or posting) leaves the loop in its for loop, never in Backoff; once
\* the for loop is over every listed candidate has been validated in order and
\* every one that passed has been executed, whatever failed before; and the
\* pass then ends with the 1 s sleep
PassOver == pc = "ForLoop" /\ idx > Len(opportunities)

C25_FailureAbsorbed ==
    /\ (execlog.called /\ execlog.outcome # "accepted") =>
          /\ pc = "ForLoop"
          /\ passlog.failed > 0
          /\ ~passlog.error
    /\ pc = "Backoff" => passlog.failed = 0
    /\ (PassOver /\ passlog.failed > 0) =>
          /\ passlog.validated = [i \in 1..Len(opportunities) |-> i]
          /\ passlog.executed = {i \in 1..Len(opportunities) : passlog.verdicts[i]}
    /\ (passlog.failed > 0 /\ passlog.slept > 0) =>
          /\ passlog.slept = RATE_LIMIT_SLEEP
          /\ pc = "Scanning"
    /\ passlog.failed > 0 => pc \in {"ForLoop", "Sleep", "Scanning"}

C25_SecondExecutedAfterFirstFailed ==
    /\ PassOver
    /\ Len(opportunities) = 2
    /\ passlog.submitted = <<1, 2>>
    /\ passlog.failed = 1
    /\ execlog.called
    /\ execlog.outcome = "accepted"
    /\ execlog.before.failed_trades = 1

C25_SleptAfterFailure ==
    /\ pc = "Scanning"
    /\ passlog.failed = 2
    /\ passlog.slept = 1

\* C22: when the request to one venue never returns, the aggregation of the
\* pair still completes: a task that is fetching eventually stops fetching
\* unless that venue answers after all
C22_HungVenueDoesNotStall ==
    \A i \in TwoPairIds :
        (tasks[i].st = "fetching" /\ HungVenue \notin DOMAIN tasks[i].results)
            ~> (tasks[i].st # "fetching" \/ HungVenue \in DOMAIN tasks[i].results)

\* the same for the venues whose requests do return: here the fetch ends
C22_AnsweringVenuesDoNotStall ==
    \A i \in TwoPairIds :
        tasks[i].st = "fetching"
            ~> (tasks[i].st # "fetching" \/ DOMAIN tasks[i].results = DexSet \ {HungVenue})

\* C23: when every network call returns or fails, the loop is in Scanning
\* again and again; from Gated and from Backoff it gets back to Scanning; and
\* an iteration starts only when the previous one is over: no task in flight,
\* no opportunity left to validate or execute.  (ExecuteOpp stops at MaxTrades
\* executions: a passing opportunity met after that is where a behaviour of
\* the model ends.)
TradeBudgetSpent ==
    /\ pc = "ForLoop"
    /\ verdict = "pass"
    /\ stats.trades_executed + stats.failed_trades >= MaxTrades

IterationOver ==
    /\ \A i \in PairIds : tasks[i] = IdleTask
    /\ opportunities = <<>>
    /\ idx = 1
    /\ verdict = "pending"

C23_LoopKeepsScanning ==
    /\ []<>(pc = "Scanning" \/ TradeBudgetSpent)
    /\ (pc = "Gated") ~> (pc = "Scanning")
    /\ (pc = "Backoff") ~> (pc = "Scanning")
    /\ (pc = "Sleep") ~> (pc = "Scanning")
    /\ [](pc = "Scanning" => IterationOver)
    /\ [](pc \in LoopStates)

C23_ScanningAgainAfterGated ==
    /\ pc = "Scanning"
    /\ passlog.slept = GATED_SLEEP
    /\ now = MaxTimeLive
    /\ stats.trades_executed = 1
    /\ stats.failed_trades = 1

====
